---- MODULE Spec2Model ----
(***************************************************************************)
(* Model of xmem::LatencyWorker::run (src/src/LatencyWorker.cpp).          *)
(*                                                                         *)
(* One worker thread executes run() once; a controller thread shares the   *)
(* mutex-guarded members of the worker object (configuration and result).  *)
(* Every statement of run() that touches shared state, the timer, a kernel *)
(* or the platform is one action; pc is the worker's position.             *)
(*                                                                         *)
(* Tick values are unsigned machine words.  The source uses uint64_t and   *)
(* IEEE doubles with a 53 bit significand; the model keeps the same        *)
(* arithmetic (wrap-around modulo 2^TickBits, round-to-nearest-even to     *)
(* MantBits significant bits) at a width TLC can enumerate.                *)
(*                                                                         *)
(* A kernel is named by its function pointer (NULL = 0).  Kernels, the     *)
(* timer and the platform calls are external: a kernel invocation costs a  *)
(* fixed number of ticks per pass (KernelTicks), the timer reads the tick  *)
(* counter `now`, pin/boost/revert succeed or fail.                        *)
(***************************************************************************)
EXTENDS Integers, Naturals, Sequences, FiniteSets, TLC

\* ---------------------------------------------------------------- bounds
TickBits == 20          \* width of a tick counter in the model (uint64_t in the source)
MantBits == 17          \* significand width of the floating type (53 for double)
MaxBatches == 5         \* cap on timed batches of the duration-bounded real loop
MaxCtrlWrites == 1      \* number of configuration writes the controller makes

\* ------------------------------------------------------- program constants
NULL == 0                                \* the null kernel / region pointer
BatchSize == 256                         \* UNROLL256, passes += 256
PrimePasses == 4                         \* for (i = 0; i < 4; i++)
\* named in run() and set in common.h; the values are on the model's tick scale
BENCHMARK_DURATION_SEC == 4
MIN_ELAPSED_TICKS == 1000
LATENCY_BENCHMARK_UNROLL_LENGTH == 512

\* ------------------------------------------------------------ input domains
Modes == {"time", "size"}                \* USE_TIME_BASED_BENCHMARKS / USE_SIZE_BASED_BENCHMARKS
Kernels == 1..4                          \* non-null RandomFunction pointers
KernelTicks == <<0, 2, 3, 400>>          \* ticks one invocation of kernel k advances the timer
Bases == {16, 32}                        \* region base addresses
Lens == {8, 16}                          \* region lengths in bytes
Cpus == {0, 1}                           \* logical CPU indices
PassCounts == {0, 1, 3}                  \* passes_per_iteration values
TicksPerSec == {0, 100, 400}             \* calibrated g_ticks_per_sec values
TimerStarts == {0, 2^TickBits - 700}     \* tick counter value when run() starts

Word == 2^TickBits

VARIABLES
    \* build and process-wide state
    mode, g_ticks_per_sec,
    \* shared configuration (members of the worker object)
    _mem_array, _len, _passes_per_iteration, _cpu_affinity,
    __kernel_fptr, __kernel_dummy_fptr,
    \* shared result (members of the worker object)
    _adjusted_ticks, _elapsed_ticks, _elapsed_dummy_ticks, _warning,
    _bytes_per_pass, _completed, _passes,
    \* the mutex of the worker object and the controller's write budget
    lockHolder, ctrlWrites,
    \* run()'s locals
    pc, cpu_affinity, kernel_fptr, kernel_dummy_fptr, next_address,
    bytes_per_pass, passes, p, start_tick, stop_tick, elapsed_ticks,
    elapsed_dummy_ticks, adjusted_ticks, warning, mem_array, len, locked, i,
    \* environment: tick counter, thread affinity and priority
    now, pinned, boosted,
    \* history of the run: what was called, and the configuration as copied
    realCalls, dummyCalls, primeReads, unlocks, reverts, snapshot,
    \* history: result of each fallible call of this run ("none" before the call)
    outcome,
    \* history across runs: number of the current run, what the first run computed
    runs, firstRun

buildVars == <<mode, g_ticks_per_sec>>
cfgVars == <<_mem_array, _len, _passes_per_iteration, _cpu_affinity,
             __kernel_fptr, __kernel_dummy_fptr>>
resVars == <<_adjusted_ticks, _elapsed_ticks, _elapsed_dummy_ticks, _warning,
             _bytes_per_pass, _completed, _passes>>
ctrlVars == <<lockHolder, ctrlWrites>>
snapVars == <<cpu_affinity, kernel_fptr, kernel_dummy_fptr, bytes_per_pass,
              mem_array, len, snapshot>>
loopVars == <<next_address, p, start_tick, stop_tick, elapsed_ticks,
              elapsed_dummy_ticks>>
postVars == <<adjusted_ticks, warning>>
platVars == <<locked, pinned, boosted, unlocks, reverts, outcome>>
runVars == <<runs, firstRun>>
callVars == <<realCalls, dummyCalls>>
vars == <<buildVars, runVars, cfgVars, resVars, ctrlVars, snapVars, loopVars, passes,
          postVars, platVars, callVars, primeReads, i, now, pc>>

\* ------------------------------------------------------------- arithmetic
\* uint64_t subtraction a - b
Sub64(a, b) == (a - b + Word) % Word

\* uint64_t addition a + b
Add64(a, b) == (a + b) % Word

\* conversion of an unsigned tick count to the floating type:
\* round to nearest, ties to even, MantBits significant bits
ToDouble(v) ==
    IF v < 2^MantBits THEN v
    ELSE LET e == CHOOSE k \in MantBits..(TickBits + 1) : 2^k <= v /\ v < 2^(k + 1)
             ulp == 2^(e - MantBits + 1)
             q == v \div ulp
             rem == v % ulp
         IN  IF 2 * rem > ulp \/ (2 * rem = ulp /\ q % 2 = 1)
             THEN (q + 1) * ulp
             ELSE q * ulp

\* faulty variant: operands of the subtraction exchanged
AdjustedTicksSwapped(real, dummy) == Sub64(dummy, real)

\* adjusted_ticks = elapsed_ticks - elapsed_dummy_ticks
AdjustedTicks(real, dummy) == Sub64(real, dummy)

\* adjusted_ticks < 0.5 * elapsed_ticks, evaluated in the floating type
\* (halving is exact, so the comparison is 2 * double(a) < double(e))
LessThanHalf(a, e) == 2 * ToDouble(a) < ToDouble(e)

\* faulty variant: the dummy >= real test left out
FishyNoDummyTest(dummy, real, adjusted) ==
    \/ real < MIN_ELAPSED_TICKS
    \/ LessThanHalf(adjusted, real)

\* the anomaly test of run()
Fishy(dummy, real, adjusted) ==
    \/ dummy >= real
    \/ real < MIN_ELAPSED_TICKS
    \/ LessThanHalf(adjusted, real)

\* uint64_t target_ticks = g_ticks_per_sec * BENCHMARK_DURATION_SEC
target_ticks == (g_ticks_per_sec * BENCHMARK_DURATION_SEC) % Word

\* the configuration members as one record
SharedConfig ==
    [mem_array |-> _mem_array, len |-> _len,
     passes_per_iteration |-> _passes_per_iteration,
     cpu_affinity |-> _cpu_affinity,
     kernel_fptr |-> __kernel_fptr, kernel_dummy_fptr |-> __kernel_dummy_fptr]

NoSnapshot == [mem_array |-> NULL]

\* no fallible call made yet
NoOutcome ==
    [snapshot |-> "none", pin |-> "none", boost |-> "none",
     revert |-> "none", publish |-> "none"]

Result(ok) == IF ok THEN "ok" ELSE "failed"

NoRun == [snapshot |-> NoSnapshot]

\* ------------------------------------------------------------------- Init
\* The object after construction and before run() executes its first
\* statement; run()'s locals hold their initialisers.
Init ==
    /\ mode \in Modes
    /\ g_ticks_per_sec \in (IF mode = "time" THEN TicksPerSec ELSE {0})
    /\ _mem_array = 16 /\ _len = 8 /\ _cpu_affinity = 0
    /\ _passes_per_iteration \in (IF mode = "size" THEN PassCounts ELSE {0})
    /\ __kernel_fptr \in Kernels
    /\ __kernel_dummy_fptr \in Kernels
    /\ _adjusted_ticks = 0 /\ _elapsed_ticks = 0 /\ _elapsed_dummy_ticks = 0
    /\ _warning = FALSE /\ _bytes_per_pass = 0 /\ _completed = FALSE /\ _passes = 0
    /\ lockHolder = "none" /\ ctrlWrites = 0
    /\ pc = "snap_acquire"
    /\ cpu_affinity = 0 /\ kernel_fptr = NULL /\ kernel_dummy_fptr = NULL
    /\ next_address = NULL /\ bytes_per_pass = 0 /\ passes = 0 /\ p = 0
    /\ start_tick = 0 /\ stop_tick = 0 /\ elapsed_ticks = 0
    /\ elapsed_dummy_ticks = 0 /\ adjusted_ticks = 0 /\ warning = FALSE
    /\ mem_array = NULL /\ len = 0 /\ locked = FALSE /\ i = 0
    /\ now \in TimerStarts
    /\ pinned = -1 /\ boosted = FALSE
    /\ realCalls = 0 /\ dummyCalls = 0 /\ primeReads = 0
    /\ unlocks = 0 /\ reverts = 0 /\ snapshot = NoSnapshot
    /\ outcome = NoOutcome
    /\ runs = 1 /\ firstRun = NoRun

\* --------------------------------------------------------- lock protocol
\* if (_acquireLock(-1)): a blocking acquisition that returns true once the
\* mutex is free, or returns false without the mutex when the wait fails
AcquireEnabled(ok) == ok => lockHolder = "none"

LockAfterAcquire(ok) == IF ok THEN "worker" ELSE lockHolder

\* ------------------------------------------------------ snapshot, 97-111
SnapshotAcquire ==
    /\ pc = "snap_acquire"
    /\ \E ok \in BOOLEAN :
          /\ AcquireEnabled(ok)
          /\ lockHolder' = LockAfterAcquire(ok)
          /\ pc' = IF ok THEN "snap_copy" ELSE "pin"
          /\ outcome' = [outcome EXCEPT !.snapshot = Result(ok)]
    /\ UNCHANGED <<buildVars, runVars, cfgVars, resVars, ctrlWrites, snapVars, loopVars,
                   passes, postVars, locked, pinned, boosted, unlocks, reverts,
                   callVars, primeReads, i, now>>

\* faulty variant: the snapshot leaves the mutex held
SnapshotCopyKeepsLock ==
    /\ pc = "snap_copy"
    /\ mem_array' = _mem_array
    /\ len' = _len
    /\ passes' = IF mode = "size" THEN _passes_per_iteration ELSE passes
    /\ bytes_per_pass' = LATENCY_BENCHMARK_UNROLL_LENGTH * 8
    /\ cpu_affinity' = _cpu_affinity
    /\ kernel_fptr' = __kernel_fptr
    /\ kernel_dummy_fptr' = __kernel_dummy_fptr
    /\ snapshot' = SharedConfig
    /\ pc' = "pin"
    /\ UNCHANGED <<buildVars, runVars, cfgVars, resVars, ctrlVars, loopVars, postVars,
                   platVars, callVars, primeReads, i, now>>

\* The copies made while the lock is held, and _releaseLock().  The region
\* copies (mem_array, len) are declared under USE_TIME_BASED_BENCHMARKS and
\* used by the priming and by the size-based loops as well; the model gives
\* both builds the same locals.
SnapshotCopy ==
    /\ pc = "snap_copy"
    /\ mem_array' = _mem_array
    /\ len' = _len
    /\ passes' = IF mode = "size" THEN _passes_per_iteration ELSE passes
    /\ bytes_per_pass' = LATENCY_BENCHMARK_UNROLL_LENGTH * 8
    /\ cpu_affinity' = _cpu_affinity
    /\ kernel_fptr' = __kernel_fptr
    /\ kernel_dummy_fptr' = __kernel_dummy_fptr
    /\ snapshot' = SharedConfig
    /\ lockHolder' = "none"
    /\ pc' = "pin"
    /\ UNCHANGED <<buildVars, runVars, cfgVars, resVars, ctrlWrites, loopVars, postVars,
                   platVars, callVars, primeReads, i, now>>

\* ------------------------------------------- affinity and priority, 113-127
\* faulty variant: a failed pin ends the run
PinFailureAborts ==
    /\ pc = "pin"
    /\ \E ok \in BOOLEAN :
          /\ locked' = ok
          /\ pinned' = IF ok THEN cpu_affinity ELSE pinned
          /\ outcome' = [outcome EXCEPT !.pin = Result(ok)]
          /\ pc' = IF ok THEN "boost" ELSE "done"
    /\ UNCHANGED <<buildVars, runVars, cfgVars, resVars, ctrlVars, snapVars, loopVars,
                   passes, postVars, boosted, unlocks, reverts, callVars,
                   primeReads, i, now>>

\* bool locked = lock_thread_to_cpu(cpu_affinity)
PinThread ==
    /\ pc = "pin"
    /\ \E ok \in BOOLEAN :
          /\ locked' = ok
          /\ pinned' = IF ok THEN cpu_affinity ELSE pinned
          /\ outcome' = [outcome EXCEPT !.pin = Result(ok)]
    /\ pc' = "boost"
    /\ UNCHANGED <<buildVars, runVars, cfgVars, resVars, ctrlVars, snapVars, loopVars,
                   passes, postVars, boosted, unlocks, reverts, callVars,
                   primeReads, i, now>>

\* if (!boostSchedulingPriority()) warn
BoostPriority ==
    /\ pc = "boost"
    /\ \E ok \in BOOLEAN :
          /\ boosted' = ok
          /\ outcome' = [outcome EXCEPT !.boost = Result(ok)]
    /\ pc' = "prime"
    /\ UNCHANGED <<buildVars, runVars, cfgVars, resVars, ctrlVars, snapVars, loopVars,
                   passes, postVars, locked, pinned, unlocks, reverts, callVars,
                   primeReads, i, now>>

\* ------------------------------------------------------- priming, 129-134
\* one forwSequentialRead_Word64 over [mem_array, mem_array + len)
PrimePass ==
    /\ pc = "prime"
    /\ i < PrimePasses
    /\ primeReads' = primeReads + 1
    /\ i' = i + 1
    /\ UNCHANGED <<buildVars, runVars, cfgVars, resVars, ctrlVars, snapVars, loopVars,
                   passes, postVars, platVars, callVars, now, pc>>

\* faulty variant: the priming loop is left one pass early
PrimeDoneEarly ==
    /\ pc = "prime"
    /\ i >= PrimePasses - 1
    /\ pc' = IF mode = "time" THEN "time_real" ELSE "size_real"
    /\ UNCHANGED <<buildVars, runVars, cfgVars, resVars, ctrlVars, snapVars, loopVars,
                   passes, postVars, platVars, callVars, primeReads, i, now>>

PrimeDone ==
    /\ pc = "prime"
    /\ i >= PrimePasses
    /\ pc' = IF mode = "time" THEN "time_real" ELSE "size_real"
    /\ UNCHANGED <<buildVars, runVars, cfgVars, resVars, ctrlVars, snapVars, loopVars,
                   passes, postVars, platVars, callVars, primeReads, i, now>>

\* ------------------------------------- duration-bounded measurement, 137-157
\* faulty variant: the loop gives up one batch size short of the target
RealLoopStopsEarly == elapsed_ticks + BatchSize < target_ticks

\* while (elapsed_ticks < target_ticks)
RealLoopContinues == elapsed_ticks < target_ticks

\* faulty variant: off by one batch
DummyLoopExtraBatch == p <= passes

\* while (p < passes)
DummyLoopContinues == p < passes

\* next_address = static_cast<uintptr_t*>(mem_array)
TimeRealStart ==
    /\ pc = "time_real"
    /\ next_address' = mem_array
    /\ pc' = "time_real_loop"
    /\ UNCHANGED <<buildVars, runVars, cfgVars, resVars, ctrlVars, snapVars, p, start_tick,
                   stop_tick, elapsed_ticks, elapsed_dummy_ticks, passes, postVars,
                   platVars, callVars, primeReads, i, now>>

\* one iteration: start_timer, 256 invocations of the real kernel,
\* stop_timer, elapsed_ticks += stop - start, passes += 256.
\* Calling through a null kernel pointer ends the process.
TimeRealBatch ==
    /\ pc = "time_real_loop"
    /\ RealLoopContinues
    /\ passes < MaxBatches * BatchSize
    /\ IF kernel_fptr = NULL
       THEN /\ pc' = "crashed"
            /\ start_tick' = now
            /\ UNCHANGED <<now, stop_tick, elapsed_ticks, passes, realCalls>>
       ELSE /\ start_tick' = now
            /\ now' = Add64(now, BatchSize * KernelTicks[kernel_fptr])
            /\ stop_tick' = now'
            /\ elapsed_ticks' = Add64(elapsed_ticks, Sub64(stop_tick', start_tick'))
            /\ passes' = Add64(passes, BatchSize)
            /\ realCalls' = realCalls + BatchSize
            /\ pc' = pc
    /\ UNCHANGED <<buildVars, runVars, cfgVars, resVars, ctrlVars, snapVars, next_address,
                   p, elapsed_dummy_ticks, postVars, platVars, dummyCalls,
                   primeReads, i>>

\* loop exit, then next_address = static_cast<uintptr_t*>(mem_array)
TimeDummyStart ==
    /\ pc = "time_real_loop"
    /\ ~RealLoopContinues
    /\ next_address' = mem_array
    /\ pc' = "time_dummy_loop"
    /\ UNCHANGED <<buildVars, runVars, cfgVars, resVars, ctrlVars, snapVars, p, start_tick,
                   stop_tick, elapsed_ticks, elapsed_dummy_ticks, passes, postVars,
                   platVars, callVars, primeReads, i, now>>

\* one iteration of the dummy loop: elapsed_dummy_ticks += stop - start, p += 256
TimeDummyBatch ==
    /\ pc = "time_dummy_loop"
    /\ DummyLoopContinues
    /\ IF kernel_dummy_fptr = NULL
       THEN /\ pc' = "crashed"
            /\ start_tick' = now
            /\ UNCHANGED <<now, stop_tick, elapsed_dummy_ticks, p, dummyCalls>>
       ELSE /\ start_tick' = now
            /\ now' = Add64(now, BatchSize * KernelTicks[kernel_dummy_fptr])
            /\ stop_tick' = now'
            /\ elapsed_dummy_ticks' =
                   Add64(elapsed_dummy_ticks, Sub64(stop_tick', start_tick'))
            /\ p' = Add64(p, BatchSize)
            /\ dummyCalls' = dummyCalls + BatchSize
            /\ pc' = pc
    /\ UNCHANGED <<buildVars, runVars, cfgVars, resVars, ctrlVars, snapVars, next_address,
                   elapsed_ticks, passes, postVars, platVars, realCalls,
                   primeReads, i>>

TimeDummyDone ==
    /\ pc = "time_dummy_loop"
    /\ ~DummyLoopContinues
    /\ pc' = "adjust"
    /\ UNCHANGED <<buildVars, runVars, cfgVars, resVars, ctrlVars, snapVars, loopVars,
                   passes, postVars, platVars, callVars, primeReads, i, now>>

\* --------------------------------------- pass-count-bounded measurement, 159-175
\* elapsed_ticks += (start_tick - stop_tick), as the size-based block computes it
SizeElapsed(acc, start, stop) == Add64(acc, Sub64(start, stop))

\* faulty variant: off by one pass
SizeLoopExtraPass == p <= passes

\* for (p = 0; p < passes; p++)
SizeLoopContinues == p < passes

\* the memory base the size-based dummy run starts from: the member _mem_array
SizeDummyBase == _mem_array

\* next_address = mem_array; start_tick = start_timer(); p = 0
SizeRealStart ==
    /\ pc = "size_real"
    /\ next_address' = mem_array
    /\ start_tick' = now
    /\ p' = 0
    /\ pc' = "size_real_loop"
    /\ UNCHANGED <<buildVars, runVars, cfgVars, resVars, ctrlVars, snapVars, stop_tick,
                   elapsed_ticks, elapsed_dummy_ticks, passes, postVars, platVars,
                   callVars, primeReads, i, now>>

\* for (...; p < passes; p++) (*kernel_fptr)(next_address, &next_address, len)
SizeRealPass ==
    /\ pc = "size_real_loop"
    /\ SizeLoopContinues
    /\ IF kernel_fptr = NULL
       THEN /\ pc' = "crashed"
            /\ UNCHANGED <<now, p, realCalls>>
       ELSE /\ now' = Add64(now, KernelTicks[kernel_fptr])
            /\ p' = p + 1
            /\ realCalls' = realCalls + 1
            /\ pc' = pc
    /\ UNCHANGED <<buildVars, runVars, cfgVars, resVars, ctrlVars, snapVars, next_address,
                   start_tick, stop_tick, elapsed_ticks, elapsed_dummy_ticks,
                   passes, postVars, platVars, dummyCalls, primeReads, i>>

\* stop_tick = stop_timer(); elapsed_ticks += (start_tick - stop_tick)
SizeRealStop ==
    /\ pc = "size_real_loop"
    /\ ~SizeLoopContinues
    /\ stop_tick' = now
    /\ elapsed_ticks' = SizeElapsed(elapsed_ticks, start_tick, stop_tick')
    /\ pc' = "size_dummy"
    /\ UNCHANGED <<buildVars, runVars, cfgVars, resVars, ctrlVars, snapVars, next_address,
                   p, start_tick, elapsed_dummy_ticks, passes, postVars, platVars,
                   callVars, primeReads, i, now>>

\* next_address = _mem_array (read without the lock); start_tick = start_timer(); p = 0
SizeDummyStart ==
    /\ pc = "size_dummy"
    /\ next_address' = SizeDummyBase
    /\ start_tick' = now
    /\ p' = 0
    /\ pc' = "size_dummy_loop"
    /\ UNCHANGED <<buildVars, runVars, cfgVars, resVars, ctrlVars, snapVars, stop_tick,
                   elapsed_ticks, elapsed_dummy_ticks, passes, postVars, platVars,
                   callVars, primeReads, i, now>>

\* for (...; p < passes; p++) (*kernel_dummy_fptr)(next_address, &next_address, len)
SizeDummyPass ==
    /\ pc = "size_dummy_loop"
    /\ SizeLoopContinues
    /\ IF kernel_dummy_fptr = NULL
       THEN /\ pc' = "crashed"
            /\ UNCHANGED <<now, p, dummyCalls>>
       ELSE /\ now' = Add64(now, KernelTicks[kernel_dummy_fptr])
            /\ p' = p + 1
            /\ dummyCalls' = dummyCalls + 1
            /\ pc' = pc
    /\ UNCHANGED <<buildVars, runVars, cfgVars, resVars, ctrlVars, snapVars, next_address,
                   start_tick, stop_tick, elapsed_ticks, elapsed_dummy_ticks,
                   passes, postVars, platVars, realCalls, primeReads, i>>

\* stop_tick = stop_timer(); elapsed_dummy_ticks += (start_tick - stop_tick)
SizeDummyStop ==
    /\ pc = "size_dummy_loop"
    /\ ~SizeLoopContinues
    /\ stop_tick' = now
    /\ elapsed_dummy_ticks' = SizeElapsed(elapsed_dummy_ticks, start_tick, stop_tick')
    /\ pc' = "adjust"
    /\ UNCHANGED <<buildVars, runVars, cfgVars, resVars, ctrlVars, snapVars, next_address,
                   p, start_tick, elapsed_ticks, passes, postVars, platVars,
                   callVars, primeReads, i, now>>

\* ------------------------------------ overhead subtraction and anomaly, 177-181
\* adjusted_ticks = elapsed_ticks - elapsed_dummy_ticks
ComputeAdjusted ==
    /\ pc = "adjust"
    /\ adjusted_ticks' = AdjustedTicks(elapsed_ticks, elapsed_dummy_ticks)
    /\ pc' = "check"
    /\ UNCHANGED <<buildVars, runVars, cfgVars, resVars, ctrlVars, snapVars, loopVars,
                   passes, warning, platVars, callVars, primeReads, i, now>>

\* faulty variant: a first anomaly sends the run back to the measurement
AnomalyCheckReruns ==
    /\ pc = "check"
    /\ warning' = IF Fishy(elapsed_dummy_ticks, elapsed_ticks, adjusted_ticks)
                  THEN TRUE ELSE warning
    /\ pc' = IF warning' /\ ~warning
             THEN (IF mode = "time" THEN "time_real" ELSE "size_real")
             ELSE "unpin"
    /\ UNCHANGED <<buildVars, runVars, cfgVars, resVars, ctrlVars, snapVars, loopVars,
                   passes, adjusted_ticks, platVars, callVars, primeReads, i, now>>

\* if (dummy >= real || real < MIN_ELAPSED_TICKS || adjusted < 0.5 * real) warning = true
AnomalyCheck ==
    /\ pc = "check"
    /\ warning' = IF Fishy(elapsed_dummy_ticks, elapsed_ticks, adjusted_ticks)
                  THEN TRUE ELSE warning
    /\ pc' = "unpin"
    /\ UNCHANGED <<buildVars, runVars, cfgVars, resVars, ctrlVars, snapVars, loopVars,
                   passes, adjusted_ticks, platVars, callVars, primeReads, i, now>>

\* --------------------------------------------------------- reverts, 183-194
\* faulty variant: the affinity is never released
UnpinNever ==
    /\ pc = "unpin"
    /\ pc' = "revert"
    /\ UNCHANGED <<buildVars, runVars, cfgVars, resVars, ctrlVars, snapVars, loopVars,
                   passes, postVars, platVars, callVars, primeReads, i, now>>

\* if (locked) unlock_thread_to_numa_node()
UnpinThread ==
    /\ pc = "unpin"
    /\ IF locked
       THEN pinned' = -1 /\ unlocks' = unlocks + 1
       ELSE UNCHANGED <<pinned, unlocks>>
    /\ pc' = "revert"
    /\ UNCHANGED <<buildVars, runVars, cfgVars, resVars, ctrlVars, snapVars, loopVars,
                   passes, postVars, locked, boosted, reverts, outcome, callVars,
                   primeReads, i, now>>

\* faulty variant: the revert is attempted only after a successful boost
RevertOnlyIfBoosted ==
    /\ pc = "revert"
    /\ IF outcome.boost = "ok"
       THEN \E ok \in BOOLEAN :
               /\ boosted' = IF ok THEN FALSE ELSE boosted
               /\ outcome' = [outcome EXCEPT !.revert = Result(ok)]
               /\ reverts' = reverts + 1
       ELSE UNCHANGED <<boosted, outcome, reverts>>
    /\ pc' = "pub_acquire"
    /\ UNCHANGED <<buildVars, runVars, cfgVars, resVars, ctrlVars, snapVars, loopVars,
                   passes, postVars, locked, pinned, unlocks, callVars,
                   primeReads, i, now>>

\* if (!revertSchedulingPriority()) warn
RevertPriority ==
    /\ pc = "revert"
    /\ \E ok \in BOOLEAN :
          /\ boosted' = IF ok THEN FALSE ELSE boosted
          /\ outcome' = [outcome EXCEPT !.revert = Result(ok)]
    /\ reverts' = reverts + 1
    /\ pc' = "pub_acquire"
    /\ UNCHANGED <<buildVars, runVars, cfgVars, resVars, ctrlVars, snapVars, loopVars,
                   passes, postVars, locked, pinned, unlocks, callVars,
                   primeReads, i, now>>

\* ----------------------------------------------------- publication, 196-206
\* faulty variant: the result of the acquisition is ignored
PublishAcquireIgnoresResult ==
    /\ pc = "pub_acquire"
    /\ \E ok \in BOOLEAN :
          /\ AcquireEnabled(ok)
          /\ lockHolder' = LockAfterAcquire(ok)
          /\ pc' = "pub_adjusted"
          /\ outcome' = [outcome EXCEPT !.publish = Result(ok)]
    /\ UNCHANGED <<buildVars, runVars, cfgVars, resVars, ctrlWrites, snapVars, loopVars,
                   passes, postVars, locked, pinned, boosted, unlocks, reverts,
                   callVars, primeReads, i, now>>

PublishAcquire ==
    /\ pc = "pub_acquire"
    /\ \E ok \in BOOLEAN :
          /\ AcquireEnabled(ok)
          /\ lockHolder' = LockAfterAcquire(ok)
          /\ pc' = IF ok THEN "pub_adjusted" ELSE "done"
          /\ outcome' = [outcome EXCEPT !.publish = Result(ok)]
    /\ UNCHANGED <<buildVars, runVars, cfgVars, resVars, ctrlWrites, snapVars, loopVars,
                   passes, postVars, locked, pinned, boosted, unlocks, reverts,
                   callVars, primeReads, i, now>>

\* _adjusted_ticks = adjusted_ticks
WriteAdjusted ==
    /\ pc = "pub_adjusted"
    /\ _adjusted_ticks' = adjusted_ticks
    /\ pc' = "pub_elapsed"
    /\ UNCHANGED <<buildVars, runVars, cfgVars, _elapsed_ticks, _elapsed_dummy_ticks,
                   _warning, _bytes_per_pass, _completed, _passes, ctrlVars,
                   snapVars, loopVars, passes, postVars, platVars, callVars,
                   primeReads, i, now>>

\* _elapsed_ticks = elapsed_ticks
WriteElapsed ==
    /\ pc = "pub_elapsed"
    /\ _elapsed_ticks' = elapsed_ticks
    /\ pc' = "pub_dummy"
    /\ UNCHANGED <<buildVars, runVars, cfgVars, _adjusted_ticks, _elapsed_dummy_ticks,
                   _warning, _bytes_per_pass, _completed, _passes, ctrlVars,
                   snapVars, loopVars, passes, postVars, platVars, callVars,
                   primeReads, i, now>>

\* _elapsed_dummy_ticks = elapsed_dummy_ticks
WriteElapsedDummy ==
    /\ pc = "pub_dummy"
    /\ _elapsed_dummy_ticks' = elapsed_dummy_ticks
    /\ pc' = "pub_warning"
    /\ UNCHANGED <<buildVars, runVars, cfgVars, _adjusted_ticks, _elapsed_ticks,
                   _warning, _bytes_per_pass, _completed, _passes, ctrlVars,
                   snapVars, loopVars, passes, postVars, platVars, callVars,
                   primeReads, i, now>>

\* _warning = warning
WriteWarning ==
    /\ pc = "pub_warning"
    /\ _warning' = warning
    /\ pc' = "pub_bytes"
    /\ UNCHANGED <<buildVars, runVars, cfgVars, _adjusted_ticks, _elapsed_ticks,
                   _elapsed_dummy_ticks, _bytes_per_pass, _completed, _passes,
                   ctrlVars, snapVars, loopVars, passes, postVars, platVars,
                   callVars, primeReads, i, now>>

\* _bytes_per_pass = bytes_per_pass
WriteBytesPerPass ==
    /\ pc = "pub_bytes"
    /\ _bytes_per_pass' = bytes_per_pass
    /\ pc' = "pub_completed"
    /\ UNCHANGED <<buildVars, runVars, cfgVars, _adjusted_ticks, _elapsed_ticks,
                   _elapsed_dummy_ticks, _warning, _completed, _passes,
                   ctrlVars, snapVars, loopVars, passes, postVars, platVars,
                   callVars, primeReads, i, now>>

\* faulty variant: the flag is never set
WriteCompletedForgotten ==
    /\ pc = "pub_completed"
    /\ pc' = "pub_passes"
    /\ UNCHANGED <<buildVars, runVars, cfgVars, resVars, ctrlVars, snapVars,
                   loopVars, passes, postVars, platVars, callVars, primeReads,
                   i, now>>

\* faulty variant: the mutex is dropped as soon as the flag is set
WriteCompletedReleasesEarly ==
    /\ pc = "pub_completed"
    /\ _completed' = TRUE
    /\ lockHolder' = "none"
    /\ pc' = "pub_passes"
    /\ UNCHANGED <<buildVars, runVars, cfgVars, _adjusted_ticks, _elapsed_ticks,
                   _elapsed_dummy_ticks, _warning, _bytes_per_pass, _passes,
                   ctrlWrites, snapVars, loopVars, passes, postVars, platVars,
                   callVars, primeReads, i, now>>

\* _completed = true
WriteCompleted ==
    /\ pc = "pub_completed"
    /\ _completed' = TRUE
    /\ pc' = "pub_passes"
    /\ UNCHANGED <<buildVars, runVars, cfgVars, _adjusted_ticks, _elapsed_ticks,
                   _elapsed_dummy_ticks, _warning, _bytes_per_pass, _passes,
                   ctrlVars, snapVars, loopVars, passes, postVars, platVars,
                   callVars, primeReads, i, now>>

\* _passes = passes
WritePasses ==
    /\ pc = "pub_passes"
    /\ _passes' = passes
    /\ pc' = "pub_release"
    /\ UNCHANGED <<buildVars, runVars, cfgVars, _adjusted_ticks, _elapsed_ticks,
                   _elapsed_dummy_ticks, _warning, _bytes_per_pass, _completed,
                   ctrlVars, snapVars, loopVars, passes, postVars, platVars,
                   callVars, primeReads, i, now>>

\* _releaseLock()
PublishRelease ==
    /\ pc = "pub_release"
    /\ lockHolder' = "none"
    /\ pc' = "done"
    /\ UNCHANGED <<buildVars, runVars, cfgVars, resVars, ctrlWrites, snapVars, loopVars,
                   passes, postVars, platVars, callVars, primeReads, i, now>>

\* ------------------------------------------------------------- controller
\* The owning controller takes the mutex to read the result or to rewrite
\* the configuration, and releases it.
CtrlAcquire ==
    /\ lockHolder = "none"
    /\ lockHolder' = "controller"
    /\ UNCHANGED <<buildVars, runVars, cfgVars, resVars, ctrlWrites, snapVars, loopVars,
                   passes, postVars, platVars, callVars, primeReads, i, now, pc>>

CtrlWriteConfig ==
    /\ lockHolder = "controller"
    /\ ctrlWrites < MaxCtrlWrites
    /\ ctrlWrites' = ctrlWrites + 1
    /\ \/ \E v \in Bases \ {_mem_array} :
             _mem_array' = v
             /\ UNCHANGED <<_len, _passes_per_iteration, _cpu_affinity,
                            __kernel_fptr, __kernel_dummy_fptr>>
       \/ \E v \in Lens \ {_len} :
             _len' = v
             /\ UNCHANGED <<_mem_array, _passes_per_iteration, _cpu_affinity,
                            __kernel_fptr, __kernel_dummy_fptr>>
       \/ \E v \in PassCounts \ {_passes_per_iteration} :
             _passes_per_iteration' = v /\ mode = "size"
             /\ UNCHANGED <<_mem_array, _len, _cpu_affinity,
                            __kernel_fptr, __kernel_dummy_fptr>>
       \/ \E v \in Cpus \ {_cpu_affinity} :
             _cpu_affinity' = v
             /\ UNCHANGED <<_mem_array, _len, _passes_per_iteration,
                            __kernel_fptr, __kernel_dummy_fptr>>
       \/ \E v \in Kernels \ {__kernel_fptr}, w \in Kernels \ {__kernel_dummy_fptr} :
             __kernel_fptr' = v /\ __kernel_dummy_fptr' = w
             /\ UNCHANGED <<_mem_array, _len, _passes_per_iteration, _cpu_affinity>>
    /\ UNCHANGED <<buildVars, runVars, resVars, lockHolder, snapVars, loopVars,
                   passes, postVars, platVars, callVars, primeReads, i, now, pc>>

CtrlRelease ==
    /\ lockHolder = "controller"
    /\ lockHolder' = "none"
    /\ UNCHANGED <<buildVars, runVars, cfgVars, resVars, ctrlWrites, snapVars, loopVars,
                   passes, postVars, platVars, callVars, primeReads, i, now, pc>>

\* ---------------------------------------------------------- specification
Worker ==
    \/ SnapshotAcquire \/ SnapshotCopy
    \/ PinThread \/ BoostPriority
    \/ PrimePass \/ PrimeDone
    \/ TimeRealStart \/ TimeRealBatch \/ TimeDummyStart
    \/ TimeDummyBatch \/ TimeDummyDone
    \/ SizeRealStart \/ SizeRealPass \/ SizeRealStop
    \/ SizeDummyStart \/ SizeDummyPass \/ SizeDummyStop
    \/ ComputeAdjusted \/ AnomalyCheck
    \/ UnpinThread \/ RevertPriority
    \/ PublishAcquire
    \/ WriteAdjusted \/ WriteElapsed \/ WriteElapsedDummy \/ WriteWarning
    \/ WriteBytesPerPass \/ WriteCompleted \/ WritePasses
    \/ PublishRelease

Controller == CtrlAcquire \/ CtrlWriteConfig \/ CtrlRelease

Next == Worker \/ Controller

Spec == Init /\ [][Next]_vars

\* -------------------------------------------------------- a further run
MaxRuns == 2

\* what a finished run computed and the configuration it ran with
ThisRun ==
    [snapshot |-> snapshot, adjusted_ticks |-> adjusted_ticks,
     elapsed_ticks |-> elapsed_ticks, warning |-> warning]

\* faulty variant: accumulators, pass counter and warning survive the call
RestartKeepsAccumulators ==
    /\ pc = "done"
    /\ runs < MaxRuns
    /\ runs' = runs + 1
    /\ firstRun' = IF runs = 1 THEN ThisRun ELSE firstRun
    /\ pc' = "snap_acquire"
    /\ cpu_affinity' = 0 /\ kernel_fptr' = NULL /\ kernel_dummy_fptr' = NULL
    /\ next_address' = NULL /\ bytes_per_pass' = 0 /\ p' = 0
    /\ start_tick' = 0 /\ stop_tick' = 0
    /\ adjusted_ticks' = 0
    /\ mem_array' = NULL /\ len' = 0 /\ locked' = FALSE /\ i' = 0
    /\ realCalls' = 0 /\ dummyCalls' = 0 /\ primeReads' = 0
    /\ unlocks' = 0 /\ reverts' = 0 /\ snapshot' = NoSnapshot
    /\ outcome' = NoOutcome
    /\ UNCHANGED <<buildVars, cfgVars, resVars, ctrlVars, pinned, boosted, now,
                   passes, elapsed_ticks, elapsed_dummy_ticks, warning>>

\* run() is called again on the same object: its locals are initialised
\* anew (lines 76-94); the members, the timer and the thread's platform state
\* are what the previous call left.
Restart ==
    /\ pc = "done"
    /\ runs < MaxRuns
    /\ runs' = runs + 1
    /\ firstRun' = IF runs = 1 THEN ThisRun ELSE firstRun
    /\ pc' = "snap_acquire"
    /\ cpu_affinity' = 0 /\ kernel_fptr' = NULL /\ kernel_dummy_fptr' = NULL
    /\ next_address' = NULL /\ bytes_per_pass' = 0 /\ passes' = 0 /\ p' = 0
    /\ start_tick' = 0 /\ stop_tick' = 0 /\ elapsed_ticks' = 0
    /\ elapsed_dummy_ticks' = 0 /\ adjusted_ticks' = 0 /\ warning' = FALSE
    /\ mem_array' = NULL /\ len' = 0 /\ locked' = FALSE /\ i' = 0
    /\ realCalls' = 0 /\ dummyCalls' = 0 /\ primeReads' = 0
    /\ unlocks' = 0 /\ reverts' = 0 /\ snapshot' = NoSnapshot
    /\ outcome' = NoOutcome
    /\ UNCHANGED <<buildVars, cfgVars, resVars, ctrlVars, pinned, boosted, now>>

NextRerun == Worker \/ Restart

SpecRerun == Init /\ [][NextRerun]_vars

\* ------------------------------------------------- fair scheduling of a run
\* The worker thread keeps being scheduled and a controller that took the
\* mutex gives it back.
NextLive == Worker \/ CtrlAcquire \/ CtrlRelease

FairSpec == Init /\ [][NextLive]_vars /\ WF_vars(Worker) /\ WF_vars(CtrlRelease)

\* ------------------------------------------------------------ positions
BeforePublication ==
    {"snap_acquire", "snap_copy", "pin", "boost", "prime", "time_real",
     "time_real_loop", "time_dummy_loop", "size_real", "size_real_loop",
     "size_dummy", "size_dummy_loop", "adjust", "check", "unpin", "revert",
     "pub_acquire", "crashed"}

AfterMeasurement ==
    {"adjust", "check", "unpin", "revert", "pub_acquire", "pub_adjusted",
     "pub_elapsed", "pub_dummy", "pub_warning", "pub_bytes", "pub_completed",
     "pub_passes", "pub_release", "done"}

SnapshotTaken == snapshot # NoSnapshot

\* every result member holds the value run() computed
ResultIsFinal ==
    /\ _adjusted_ticks = adjusted_ticks
    /\ _elapsed_ticks = elapsed_ticks
    /\ _elapsed_dummy_ticks = elapsed_dummy_ticks
    /\ _warning = warning
    /\ _bytes_per_pass = bytes_per_pass
    /\ _passes = passes

\* ------------------------------------------------------------------ claims

\* C1: completed is false in every state before the publication critical
\* section, and a controller that holds the lock and sees completed = true
\* reads all six result fields at the final values of the run.
C1_PublishAtomic ==
    /\ pc \in BeforePublication => ~_completed
    /\ (lockHolder = "controller" /\ _completed) => ResultIsFinal

C1_Witness ==
    /\ lockHolder = "controller" /\ _completed
    /\ _passes > 0 /\ _elapsed_ticks > 0 /\ _warning

\* C2: when completed becomes true every other result field has already
\* been written (completed = true is the last write of the critical section).
C2_CompletedWrittenLast == _completed => ResultIsFinal

\* C3: in a completed run whose published dummy ticks are less than its
\* published real ticks, adjusted = real - dummy exactly.
C3_AdjustedExact ==
    (_completed /\ _elapsed_dummy_ticks < _elapsed_ticks)
        => _adjusted_ticks = _elapsed_ticks - _elapsed_dummy_ticks

C3_Witness ==
    /\ _completed
    /\ 0 < _elapsed_dummy_ticks /\ _elapsed_dummy_ticks < _elapsed_ticks
    /\ _adjusted_ticks > 0

\* C4: in a completed run the published warning is true exactly when
\* dummy >= real, or real < MIN_ELAPSED_TICKS, or adjusted < real / 2.
C4_WarningIff ==
    _completed =>
        (_warning <=> \/ _elapsed_dummy_ticks >= _elapsed_ticks
                      \/ _elapsed_ticks < MIN_ELAPSED_TICKS
                      \/ 2 * _adjusted_ticks < _elapsed_ticks)

\* the overhead-dominant condition alone sets the warning
C4_Witness ==
    /\ _completed /\ _warning
    /\ _elapsed_dummy_ticks < _elapsed_ticks
    /\ _elapsed_ticks >= MIN_ELAPSED_TICKS
    /\ 2 * _adjusted_ticks < _elapsed_ticks

\* C5: in pass-count-bounded mode the published elapsed ticks are stop - start
\* of the single timed run: N * r for the real kernel and N * d for the dummy.
C5_SizeElapsedIsStopMinusStart ==
    (mode = "size" /\ _completed /\ SnapshotTaken) =>
        /\ _elapsed_ticks =
              snapshot.passes_per_iteration * KernelTicks[snapshot.kernel_fptr]
        /\ _elapsed_dummy_ticks =
              snapshot.passes_per_iteration * KernelTicks[snapshot.kernel_dummy_fptr]

\* C6: in pass-count-bounded mode, d < r, N*r >= MIN_ELAPSED_TICKS and
\* N*(r-d) >= N*r/2 publish warning = false; N*(r-d) < N*r/2 publishes
\* warning = true.
C6_SizeWarning ==
    (mode = "size" /\ _completed /\ SnapshotTaken) =>
        LET N == snapshot.passes_per_iteration
            r == KernelTicks[snapshot.kernel_fptr]
            d == KernelTicks[snapshot.kernel_dummy_fptr]
        IN  /\ (d < r /\ N * r >= MIN_ELAPSED_TICKS /\ 2 * N * (r - d) >= N * r)
                   => ~_warning
            /\ (2 * N * (r - d) < N * r) => _warning

\* C7: in duration-bounded mode the pass counter is a multiple of the batch
\* size in every state, and once the real loop has exited the accumulated
\* (and later the published) elapsed ticks are at least target_ticks.
C7_BatchMultipleAndTarget ==
    mode = "time" =>
        /\ passes % BatchSize = 0
        /\ _passes % BatchSize = 0
        /\ pc \in AfterMeasurement \cup {"time_dummy_loop"}
              => elapsed_ticks >= target_ticks
        /\ _completed => _elapsed_ticks >= target_ticks

C7_Witness ==
    /\ mode = "time" /\ _completed /\ pc = "done"
    /\ target_ticks > 0
    /\ _passes >= 2 * BatchSize
    /\ _elapsed_ticks >= target_ticks

\* C8: in duration-bounded mode the dummy loop executes exactly the passes
\* the real loop recorded.
C8_DummyPassesEqualReal ==
    (mode = "time" /\ pc \in AfterMeasurement) =>
        /\ dummyCalls = passes
        /\ dummyCalls = realCalls
        /\ p = passes

C8_Witness ==
    /\ mode = "time" /\ pc = "done"
    /\ dummyCalls = passes /\ passes >= 2 * BatchSize

\* C9: in pass-count-bounded mode both kernels are invoked exactly the pass
\* count copied at the start of the run, and that count is published.
C9_SizePassesExact ==
    (mode = "size" /\ SnapshotTaken) =>
        /\ pc \in {"size_dummy", "size_dummy_loop"} \cup AfterMeasurement
              => realCalls = snapshot.passes_per_iteration
        /\ pc \in AfterMeasurement
              => dummyCalls = snapshot.passes_per_iteration
        /\ (pc = "done" /\ _completed)
              => _passes = snapshot.passes_per_iteration

C9_Witness ==
    /\ mode = "size" /\ pc = "done" /\ _completed /\ SnapshotTaken
    /\ _passes = 3 /\ realCalls = 3 /\ dummyCalls = 3
    /\ _passes_per_iteration # 3

\* C10: after the snapshot the run uses only the copied configuration:
\* chain base, kernels, pass count and CPU are those of the snapshot,
\* whatever the controller writes afterwards.
C10_ConfigIsolation ==
    SnapshotTaken =>
        /\ (pc \in {"time_real_loop", "size_real_loop"} /\ realCalls > 0)
              => next_address = snapshot.mem_array
        /\ (pc \in {"time_dummy_loop", "size_dummy_loop"} /\ dummyCalls > 0)
              => next_address = snapshot.mem_array
        /\ kernel_fptr = snapshot.kernel_fptr
        /\ kernel_dummy_fptr = snapshot.kernel_dummy_fptr
        /\ mode = "size" => passes = snapshot.passes_per_iteration
        /\ pinned \in {-1, snapshot.cpu_affinity}

\* positions after the priority revert
AfterRevert ==
    {"pub_acquire", "pub_adjusted", "pub_elapsed", "pub_dummy", "pub_warning",
     "pub_bytes", "pub_completed", "pub_passes", "pub_release", "done"}

\* C11: the priority revert is attempted exactly once, after the measurement
\* and before publication, whatever the boost returned and whether or not
\* the warning was set.
C11_RevertOnce ==
    /\ pc \in AfterRevert => (reverts = 1 /\ outcome.revert # "none")
    /\ pc \in BeforePublication \ {"pub_acquire"}
          => (reverts = 0 /\ outcome.revert = "none")
    /\ reverts = 1 => (outcome.boost # "none" /\ pc \notin {"adjust", "check"})

\* the boost failed, the warning is set, the revert was still attempted
C11_Witness ==
    /\ pc = "pub_acquire" /\ outcome.boost = "failed" /\ warning
    /\ reverts = 1 /\ realCalls > 0

\* C12 as stated: the affinity is released at the end of every run, also
\* when the pin failed.
C12_UnpinAlways ==
    pc \in {"revert"} \cup AfterRevert => unlocks = 1

\* C12 amended: the affinity is released at the end of the run exactly when
\* the pin succeeded, whatever the measurement outcome; after a failed pin
\* no release is attempted.
C12_UnpinIffPinned ==
    /\ pc \in {"revert"} \cup AfterRevert
          => /\ unlocks = (IF outcome.pin = "ok" THEN 1 ELSE 0)
             /\ pinned = -1
    /\ pc \in BeforePublication \ {"revert", "pub_acquire"} => unlocks = 0

C12_Witness ==
    /\ pc = "done" /\ outcome.pin = "ok" /\ unlocks = 1 /\ warning /\ realCalls > 0

\* what a run with the copied configuration measures, from the kernels' costs
RealCost == KernelTicks[kernel_fptr]

DummyCost == KernelTicks[kernel_dummy_fptr]

TimeBatches ==
    IF target_ticks = 0 THEN 0
    ELSE (target_ticks + BatchSize * RealCost - 1) \div (BatchSize * RealCost)

ExpectedPasses == IF mode = "time" THEN TimeBatches * BatchSize ELSE passes

ExpectedReal ==
    IF mode = "time" THEN (ExpectedPasses * RealCost) % Word
    ELSE Sub64(0, (ExpectedPasses * RealCost) % Word)

ExpectedDummy ==
    IF mode = "time" THEN (ExpectedPasses * DummyCost) % Word
    ELSE Sub64(0, (ExpectedPasses * DummyCost) % Word)

\* C13: pin, boost and revert failures are not fatal: whatever the three
\* calls return, a run reaches its end only through priming, both
\* measurements and both reverts, it publishes when it gets the lock, and
\* the published numbers depend on the configuration and the kernels only.
C13_PlatformFailuresNonFatal ==
    /\ pc = "crashed" => ~SnapshotTaken
    /\ pc \in AfterRevert =>
          /\ primeReads = PrimePasses
          /\ outcome.pin # "none" /\ outcome.boost # "none" /\ outcome.revert # "none"
          /\ SnapshotTaken =>
                /\ realCalls = ExpectedPasses /\ dummyCalls = ExpectedPasses
                /\ elapsed_ticks = ExpectedReal
                /\ elapsed_dummy_ticks = ExpectedDummy
                /\ adjusted_ticks = Sub64(ExpectedReal, ExpectedDummy)
    /\ (pc = "done" /\ outcome.publish = "ok") => (_completed /\ ResultIsFinal)

C13_Witness ==
    /\ pc = "done" /\ _completed /\ SnapshotTaken
    /\ outcome.pin = "failed" /\ outcome.boost = "failed" /\ outcome.revert = "failed"
    /\ _elapsed_ticks > 0 /\ ~_warning

\* the order of the positions of run(); the two builds share the ranks of
\* their measurement positions
PhaseRank(q) ==
    CASE q = "snap_acquire" -> 0
      [] q = "snap_copy" -> 1
      [] q = "pin" -> 2
      [] q = "boost" -> 3
      [] q = "prime" -> 4
      [] q \in {"time_real", "size_real"} -> 5
      [] q \in {"time_real_loop", "size_real_loop"} -> 6
      [] q = "size_dummy" -> 7
      [] q \in {"time_dummy_loop", "size_dummy_loop"} -> 8
      [] q = "adjust" -> 9
      [] q = "check" -> 10
      [] q = "unpin" -> 11
      [] q = "revert" -> 12
      [] q = "pub_acquire" -> 13
      [] q = "pub_adjusted" -> 14
      [] q = "pub_elapsed" -> 15
      [] q = "pub_dummy" -> 16
      [] q = "pub_warning" -> 17
      [] q = "pub_bytes" -> 18
      [] q = "pub_completed" -> 19
      [] q = "pub_passes" -> 20
      [] q = "pub_release" -> 21
      [] q = "done" -> 22
      [] q = "crashed" -> 23

\* C14: the warning is advisory: no step takes the run back to an earlier
\* position (each measurement phase is entered once, from the phase before
\* it), the anomaly check always continues with the reverts, and a run that
\* set the warning and got the lock ends published with completed = true.
C14_WarningAdvisory ==
    /\ [][/\ PhaseRank(pc') >= PhaseRank(pc)
          /\ (pc' \in {"time_real", "size_real"} /\ pc' # pc) => pc = "prime"
          /\ (pc' \in {"time_dummy_loop", "size_dummy"} /\ pc' # pc)
                => pc \in {"time_real_loop", "size_real_loop"}
          /\ pc = "check" => pc' \in {"check", "unpin"}]_vars
    /\ []((pc = "done" /\ warning /\ outcome.publish = "ok")
             => (_completed /\ _warning))

C14_Witness ==
    /\ pc = "done" /\ warning /\ outcome.publish = "ok" /\ _completed /\ _warning
    /\ realCalls > 0 /\ dummyCalls > 0

\* positions of the two critical sections
CriticalSections ==
    {"snap_copy", "pub_adjusted", "pub_elapsed", "pub_dummy", "pub_warning",
     "pub_bytes", "pub_completed", "pub_passes", "pub_release"}

\* C15: the worker holds the lock exactly in its two critical sections, so
\* never between the end of the snapshot and the start of the publication.
C15_LockOnlyInCriticalSections ==
    lockHolder = "worker" <=> pc \in CriticalSections

\* the controller holds the lock while the worker is measuring
C15_Witness ==
    /\ lockHolder = "controller"
    /\ pc \in {"time_real_loop", "size_real_loop"} /\ realCalls > 0

\* C17: the phases follow the fixed order snapshot, pin, boost, priming,
\* real measurement, dummy measurement, anomaly check, reverts, publication;
\* the four priming passes are over before the first timer start and
\* completed is not true before the priority revert was attempted.
C17_PhaseOrder ==
    /\ snapshot # NoSnapshot => outcome.snapshot = "ok"
    /\ outcome.pin # "none" => outcome.snapshot # "none"
    /\ outcome.boost # "none" => outcome.pin # "none"
    /\ primeReads > 0 => outcome.boost # "none"
    /\ primeReads < PrimePasses
          => (PhaseRank(pc) <= 4 /\ realCalls = 0 /\ dummyCalls = 0
              /\ start_tick = 0 /\ stop_tick = 0)
    /\ dummyCalls > 0 => PhaseRank(pc) >= 8
    /\ PhaseRank(pc) \in 8..22
          => (IF mode = "time" THEN ~RealLoopContinues ELSE realCalls = passes)
    /\ (adjusted_ticks # 0 \/ warning) => PhaseRank(pc) >= 10
    /\ unlocks > 0 => PhaseRank(pc) >= 12
    /\ reverts > 0 => PhaseRank(pc) >= 13
    /\ outcome.publish # "none" => reverts = 1
    /\ _completed => (reverts = 1 /\ outcome.publish = "ok")

C17_Witness ==
    /\ pc = "done" /\ _completed /\ primeReads = PrimePasses
    /\ realCalls > 0 /\ dummyCalls > 0 /\ unlocks = 1 /\ reverts = 1

\* C18: when the acquisition for the publication fails, no result field is
\* written and completed stays false: the result record is as it was before
\* the run.
C18_FailedPublishWritesNothing ==
    outcome.publish = "failed" =>
        /\ pc = "done" /\ lockHolder # "worker"
        /\ ~_completed /\ ~_warning
        /\ _adjusted_ticks = 0 /\ _elapsed_ticks = 0 /\ _elapsed_dummy_ticks = 0
        /\ _bytes_per_pass = 0 /\ _passes = 0

C18_Witness ==
    /\ outcome.publish = "failed" /\ pc = "done"
    /\ elapsed_ticks > 0 /\ passes > 0 /\ warning /\ ~_completed

\* C19: a run whose snapshot acquisition failed does not go on to pin,
\* prime and invoke kernels with the initial values of its locals.
C19_NoRunWithoutSnapshot ==
    outcome.snapshot = "failed" =>
        /\ outcome.pin = "none"
        /\ primeReads = 0
        /\ pc # "crashed"

\* C16: a later run with the same configuration computes and publishes the
\* same adjusted ticks, elapsed ticks and warning as the first run: nothing
\* a previous run left behind enters the result.
C16_Deterministic ==
    (runs >= 2 /\ firstRun.snapshot = snapshot) =>
        /\ PhaseRank(pc) \in 11..22
              => /\ adjusted_ticks = firstRun.adjusted_ticks
                 /\ elapsed_ticks = firstRun.elapsed_ticks
                 /\ warning = firstRun.warning
        /\ pc = "pub_release"
              => /\ _adjusted_ticks = firstRun.adjusted_ticks
                 /\ _elapsed_ticks = firstRun.elapsed_ticks
                 /\ _warning = firstRun.warning

C16_Witness ==
    /\ runs = 2 /\ pc = "pub_release" /\ SnapshotTaken
    /\ firstRun.snapshot = snapshot
    /\ _elapsed_ticks > 0 /\ _adjusted_ticks > 0 /\ now # 0

\* a duration-bounded run whose real kernel never advances the timer
ZeroTickRun ==
    /\ mode = "time" /\ target_ticks > 0
    /\ SnapshotTaken /\ KernelTicks[snapshot.kernel_fptr] = 0

\* C20: under fair scheduling every run sets completed = true, unless one
\* of its two lock acquisitions fails or the real kernel of a
\* duration-bounded run with a positive target takes zero ticks per batch;
\* such a zero-tick run never leaves the real loop and never completes.
C20_Terminates ==
    /\ <>(\/ _completed
          \/ outcome.snapshot = "failed"
          \/ outcome.publish = "failed"
          \/ ZeroTickRun)
    /\ [](ZeroTickRun => (~_completed /\ PhaseRank(pc) <= 6))

C20_Witness ==
    /\ _completed /\ pc = "done" /\ mode = "time" /\ target_ticks > 0
    /\ realCalls >= 2 * BatchSize /\ dummyCalls = realCalls

====
